---- MODULE Spec2Model ----
(***************************************************************************)
(* Fixed-point exponential approximator (exp/exp.py) and Izhikevich        *)
(* spiking neuron (izhikevitch/neuron.py), both MyHDL designs.             *)
(*                                                                         *)
(* A MyHDL simulation is a sequence of delta cycles.  Every signal has a   *)
(* current value (sig) and a pending next value (nxt).  In the run phase   *)
(* the triggered processes (runq) execute in any order, read current       *)
(* values and assign next values; when the run phase is over, the update   *)
(* phase commits every next value at once and triggers the processes       *)
(* sensitive to the signals that changed.  Simulated time advances only    *)
(* when nothing is left to run or to commit.  Assigning a value outside    *)
(* the [min, max) interval of an intbv signal raises ValueError, which     *)
(* ends the simulation (fault).                                            *)
(***************************************************************************)
EXTENDS Integers, Sequences, FiniteSets, TLC

\* Fraction bits of the exponential's format: exp_test_bench(8), FixedDef(1, 8).
N == 8
\* Fraction bits of the neuron's format: iz_test_bench(a, b, c, d, dt, 11).
Fshift == 11
\* Rising clock edges the neuron is followed for after a reset.
MaxEdges == 52
\* Clock periods for which the neuron's stimulus holds a value of I.
StimPeriod == 12
\* Sample points per half range for the arguments of the pure functions.
Grid == 8
\* Largest fraction width of the formats constructed apart from the shipped ones.
MaxF == 3

VARIABLES design,   \* which program was constructed: "exp", "iz" or "calc"
          sig,      \* current value of every signal
          nxt,      \* pending next value of every signal
          runq,     \* processes triggered in the current delta cycle
          fault,    \* a range error ended the simulation
          edges,    \* rising clock edges seen by the neuron since reset
          pre,      \* history: the state the last rising clock edge found
          edge,     \* history: the last update phase was a rising clock edge
          memo,     \* history: one earlier observation of the settled ExpComb
          call,     \* "calc": the pure function being called and its arguments
          ret,      \* "calc": the value it returned
          tb        \* the shipped test bench: its processes, timers and clock

vars == <<design, sig, nxt, runq, fault, edges, pre, edge, memo, call, ret, tb>>

\* No shipped test bench: the clock, the input and reset are driven freely.
NoBench == [on |-> FALSE]

----------------------------------------------------------------------------
\* Python integer arithmetic.

\* Variant: the shift truncates toward zero, as C's integer division does.
Shr_trunc(x, n) == IF x >= 0 THEN x \div (2 ^ n) ELSE -((-x) \div (2 ^ n))

\* x >> n on Python integers: a negative x is shifted as ~((~x) >> n).
Shr(x, n) == IF x >= 0 THEN x \div (2 ^ n) ELSE -(((-x) - 1) \div (2 ^ n)) - 1

\* int(r): truncation toward zero of the rational num / den, den > 0.
PyInt(num, den) == IF num >= 0 THEN num \div den ELSE -((-num) \div den)

\* round(r) of Python 2: nearest integer, halves away from zero.
PyRound(num, den) ==
    IF num >= 0 THEN (2 * num + den) \div (2 * den)
                ELSE -((2 * (-num) + den) \div (2 * den))

Abs(x) == IF x >= 0 THEN x ELSE -x

\* Variant: the product is rounded to the nearest multiple of 2^n.
PyMulShr_round(x, y, n) ==
    LET big   == IF Abs(x) >= Abs(y) THEN x ELSE y
        small == IF Abs(x) >= Abs(y) THEN y ELSE x
        hi    == Shr(big, n)
        lo    == big - hi * (2 ^ n)
    IN  small * hi + Shr(small * lo + 2 ^ (n - 1), n)

\* (x * y) >> n on Python integers, which are unbounded: the product is
\* exact.  It is formed here from the high and the low part of the larger
\* factor, big = hi * 2^n + lo with 0 <= lo < 2^n, so that
\* (small * big) >> n = small * hi + ((small * lo) >> n) and no intermediate
\* leaves the 32 bits of TLC's integers.
PyMulShr(x, y, n) ==
    LET big   == IF Abs(x) >= Abs(y) THEN x ELSE y
        small == IF Abs(x) >= Abs(y) THEN y ELSE x
        hi    == Shr(big, n)
        lo    == big - hi * (2 ^ n)
    IN  small * hi + Shr(small * lo, n)

----------------------------------------------------------------------------
\* izhikevitch/neuron.py: fixed point helpers and derivatives.

fixed_mul(x, y, F) == PyMulShr(x, y, F)

\* to_fixed of the real number num / den.
to_fixed(num, den, F) == PyInt(num * (2 ^ F), den)

\* to_float: int(x) / float(1 << Fshift), the rational x / 2^F kept as a
\* numerator and a denominator.
to_float(x, F) == [num |-> x, den |-> 2 ^ F]

\* Variant: the recovery variable is added instead of subtracted.
compute_dv_plus_u(I, u, v, dt, F) ==
    LET c1 == to_fixed(4, 100, F)
        c2 == to_fixed(5, 1, F)
        c3 == to_fixed(140, 1, F)
        v2 == fixed_mul(v, v, F)
    IN  fixed_mul(dt,
                  fixed_mul(c1, v2, F) + fixed_mul(c2, v, F) + c3 + u + I,
                  F)

compute_dv(I, u, v, dt, F) ==
    LET c1 == to_fixed(4, 100, F)
        c2 == to_fixed(5, 1, F)
        c3 == to_fixed(140, 1, F)
        v2 == fixed_mul(v, v, F)
    IN  fixed_mul(dt,
                  fixed_mul(c1, v2, F) + fixed_mul(c2, v, F) + c3 - u + I,
                  F)

compute_du(u, v, a, b, dt, F) ==
    LET b_v  == fixed_mul(b, v, F)
        dt_a == fixed_mul(dt, a, F)
    IN  fixed_mul(dt_a, b_v - u, F)

\* The chattering parameters a, b, c, d = 0.02, 0.2, -50.0, 2.0 and dt = 0.2.
a_fix == to_fixed(2, 100, Fshift)
b_fix == to_fixed(2, 10, Fshift)
c_fix == to_fixed(-50, 1, Fshift)
d_fix == to_fixed(2, 1, Fshift)
dt_fix == to_fixed(2, 10, Fshift)
threshold == to_fixed(30, 1, Fshift)
max_val == 2 ^ (Fshift + 7)

\* Initial (and reset) values of the registers v, u and output.
v_init == c_fix
u_init == fixed_mul(v_init, b_fix, Fshift)
output_init == FALSE

----------------------------------------------------------------------------
\* exp/exp.py: FixedDef(1, N).

FixedDef_m == 1
FixedDef_f == N
\* Variant: one bit narrower, 1 << (m + f).
FixedDef_max_val_narrow == 2 ^ (FixedDef_m + FixedDef_f)
FixedDef_max_val == 2 ^ (FixedDef_m + FixedDef_f + 1)
FixedDef_min_val == -FixedDef_max_val

\* FixedDef.to_fixed of the real number num / den.
FixedDef_to_fixed(num, den) == PyRound(num * (2 ^ FixedDef_f), den)

\* FixedDef.to_float: int(x) / float(1 << self.f).
FixedDef_to_float(x) == [num |-> x, den |-> 2 ^ FixedDef_f]

\* FixedDef.__init__(m, f): the attributes of the object it leaves.
FixedDef_init(m, f) ==
    [m |-> m, f |-> f, max_val |-> 2 ^ (m + f + 1), min_val |-> -(2 ^ (m + f + 1))]

\* The expression FixedDef.fixed_mul assigns to z.
FixedDef_fixed_mul(x, y) == PyMulShr(x, y, FixedDef_f)

sixth == FixedDef_to_fixed(1, 6)

\* Variant: the second-order expansion, without the cubic term.
ExpComb_logic_2term(x, x2, x3_6) == (2 ^ FixedDef_f) + x + Shr(x2, 1)

\* The expression ExpComb.logic assigns to y.
ExpComb_logic(x, x2, x3_6) == (2 ^ FixedDef_f) + x + Shr(x2, 1) + x3_6

\* ExpComb as a function of x: the value its four blocks settle on.
ExpComb(x) ==
    LET x2   == FixedDef_fixed_mul(x, x)
        x3   == FixedDef_fixed_mul(x2, x)
        x3_6 == FixedDef_fixed_mul(x3, sixth)
    IN  ExpComb_logic(x, x2, x3_6)

\* math.exp(a / 2^N) for a >= 0, enclosed between two rationals of
\* denominator ExpScale.  The lower end is the Taylor series with every term
\* rounded down, t(n) = floor(t(n-1) * a / (2^N * n)), summed until the terms
\* vanish; at most seven terms are not zero for a <= 2^N, each is short of
\* the exact term by less than 1.5 and the exact terms left out add up to less
\* than 3, so the upper end is the lower end plus 16.
ExpScale == 2 ^ 13
RECURSIVE ExpSeries(_, _, _)
ExpSeries(t, n, a) ==
    IF t = 0 THEN 0 ELSE t + ExpSeries((t * a) \div ((2 ^ N) * n), n + 1, a)
math_exp_lo(a) == ExpSeries(ExpScale, 1, a)
math_exp_hi(a) == ExpSeries(ExpScale, 1, a) + 16

----------------------------------------------------------------------------
\* Signals.

\* The signals holding a bounded intbv (min inclusive, max exclusive); the
\* others (clock, reset, output) are bool.
IntbvSignals == {"x", "x2", "x3", "x3_6", "y_comb", "y", "I", "v", "u"}

SigMin == IF design = "exp" THEN FixedDef_min_val ELSE -max_val
SigMax == IF design = "exp" THEN FixedDef_max_val ELSE max_val

\* Variant: signals without bounds, every value is accepted.
handleBounds_off(s, val) == TRUE

\* intbv._handleBounds: min <= val < max.
handleBounds(s, val) ==
    s \in IntbvSignals => (val >= SigMin /\ val < SigMax)

\* A process body: the assignments `s.next = val` in program order.  The
\* first one out of bounds stores its value in the next slot and raises.
RECURSIVE Assign(_, _)
Assign(n, as) ==
    IF as = <<>> THEN [nxt |-> n, fault |-> FALSE]
    ELSE LET s  == Head(as)[1]
             val == Head(as)[2]
             n1 == [n EXCEPT ![s] = val]
         IN  IF handleBounds(s, val) THEN Assign(n1, Tail(as))
             ELSE [nxt |-> n1, fault |-> TRUE]

\* Run process p of the current delta cycle with the given assignments.
RunProcess(p, as) ==
    /\ ~fault
    /\ p \in runq
    /\ runq' = runq \ {p}
    /\ nxt' = Assign(nxt, as).nxt
    /\ fault' = Assign(nxt, as).fault
    /\ UNCHANGED <<design, tb, sig, edges, pre, edge, memo, call, ret>>

\* Nothing to run and nothing to commit: simulated time may advance.
Quiescent == ~fault /\ runq = {} /\ nxt = sig

----------------------------------------------------------------------------
\* ExpSeq(x, y, clock, reset, fixed_def) and its test bench.

ExpProcs == {"inst_x2", "inst_x3", "inst_x3_6", "logic", "reg_exp"}

\* Inputs the stimulus may drive on x: the bench's ramp runs over
\* -(1 << N) + 1 .. (1 << N) - 1; the ends of the format are added.
XInputs == {FixedDef_min_val, -(2 ^ N) - 2 ^ (N - 1), -(2 ^ N) + 1, -1, 0,
            2 ^ (N - 1), (2 ^ N) - 1, (2 ^ N) + 2 ^ (N - 1),
            FixedDef_max_val - 1}

InitExp ==
    /\ design = "exp"
    /\ sig = [x |-> 0, x2 |-> 0, x3 |-> 0, x3_6 |-> 0, y_comb |-> 0, y |-> 0,
              clock |-> FALSE, reset |-> 1]
    /\ nxt = sig
    /\ runq = {"inst_x2", "inst_x3", "inst_x3_6", "logic"}
    /\ fault = FALSE
    /\ edges = 0
    /\ pre = [valid |-> FALSE, x |-> 0]
    /\ edge = FALSE
    /\ memo = [valid |-> FALSE, x |-> 0, y |-> 0]
    /\ call = <<>>
    /\ ret = [done |-> FALSE, val |-> 0]
    /\ tb = NoBench

inst_x2 ==
    /\ design = "exp"
    /\ RunProcess("inst_x2", << <<"x2", FixedDef_fixed_mul(sig.x, sig.x)>> >>)

inst_x3 ==
    /\ design = "exp"
    /\ RunProcess("inst_x3", << <<"x3", FixedDef_fixed_mul(sig.x2, sig.x)>> >>)

inst_x3_6 ==
    /\ design = "exp"
    /\ RunProcess("inst_x3_6", << <<"x3_6", FixedDef_fixed_mul(sig.x3, sixth)>> >>)

logic ==
    /\ design = "exp"
    /\ RunProcess("logic", << <<"y_comb", ExpComb_logic(sig.x, sig.x2, sig.x3_6)>> >>)

\* always_seq: an active reset gives every register its initial value.
reg_exp ==
    /\ design = "exp"
    /\ RunProcess("reg_exp",
                  IF sig.reset = 0 THEN << <<"y", 0>> >>
                                   ELSE << <<"y", sig.y_comb>> >>)

\* clock_gen of exp_test_bench: toggles the clock when time advances.  The
\* reset driver may act in the same time step.
TimeStep ==
    /\ ~fault
    /\ runq = {}
    /\ \A s \in DOMAIN sig \ {"reset"} : nxt[s] = sig[s]

clock_gen ==
    /\ design = "exp"
    /\ TimeStep
    /\ nxt' = [nxt EXCEPT !.clock = ~sig.clock]
    /\ UNCHANGED <<design, tb, sig, runq, fault, edges, pre, edge, memo, call, ret>>

\* stimulus of exp_test_bench: drives x between clock edges.
exp_stimulus ==
    /\ design = "exp"
    /\ TimeStep
    /\ \E i \in XInputs \ {sig.x} : nxt' = [nxt EXCEPT !.x = i]
    /\ UNCHANGED <<design, tb, sig, runq, fault, edges, pre, edge, memo, call, ret>>

\* The driver of the asynchronous, active-low ResetSignal: it may assert or
\* release reset in any delta cycle, whatever is running or pending.
reset_driver ==
    /\ design \in {"exp", "iz"}
    /\ ~fault
    /\ nxt.reset = sig.reset
    /\ nxt' = [nxt EXCEPT !.reset = 1 - sig.reset]
    /\ UNCHANGED <<design, tb, sig, runq, fault, edges, pre, edge, memo, call, ret>>

\* History only: a reader samples the settled combinational pair (x, y_comb)
\* once, to compare later evaluations of the same x against it.
observe ==
    /\ design = "exp"
    /\ Quiescent
    /\ ~memo.valid
    /\ memo' = [valid |-> TRUE, x |-> sig.x, y |-> sig.y_comb]
    /\ UNCHANGED <<design, tb, sig, nxt, runq, fault, edges, pre, edge, call, ret>>

----------------------------------------------------------------------------
\* neuron_module(clk, reset, I, output, a, b, c, d, dt, Fshift) and its bench.

\* Input currents the stimulus may drive: the bench's 0 and to_fixed(10.0),
\* and the ends of the signal's range.
IInputs == {0, to_fixed(10, 1, Fshift), max_val - 1, -max_val}

InitIz ==
    /\ design = "iz"
    /\ sig = [I |-> 0, v |-> v_init, u |-> u_init, output |-> output_init,
              clk |-> FALSE, reset |-> 1]
    /\ nxt = sig
    /\ runq = {}
    /\ fault = FALSE
    /\ edges = 0
    /\ pre = [valid |-> FALSE, v |-> 0, u |-> 0, I |-> 0]
    /\ edge = FALSE
    /\ memo = [valid |-> FALSE, x |-> 0, y |-> 0]
    /\ call = <<>>
    /\ ret = [done |-> FALSE, val |-> 0]
    /\ tb = NoBench

\* Variant: a spike leaves v at the value that crossed the threshold.
neuron_func_keep_v(v, u, I) ==
    LET dv == compute_dv(I, u, v, dt_fix, Fshift)
        updated_v == v + dv
    IN  IF updated_v > threshold
        THEN << <<"v", updated_v>>, <<"u", u + d_fix>>, <<"output", TRUE>> >>
        ELSE LET du == compute_du(u, v, a_fix, b_fix, dt_fix, Fshift)
             IN  << <<"v", updated_v>>, <<"u", u + du>>, <<"output", FALSE>> >>

\* Variant: sequential chaining, du is computed from the updated v.
neuron_func_chained(v, u, I) ==
    LET dv == compute_dv(I, u, v, dt_fix, Fshift)
        updated_v == v + dv
    IN  IF updated_v > threshold
        THEN << <<"v", c_fix>>, <<"u", u + d_fix>>, <<"output", TRUE>> >>
        ELSE LET du == compute_du(u, updated_v, a_fix, b_fix, dt_fix, Fshift)
             IN  << <<"v", updated_v>>, <<"u", u + du>>, <<"output", FALSE>> >>

\* Variant: only the spike branch drives output, a spike stays latched.
neuron_func_latched(v, u, I) ==
    LET dv == compute_dv(I, u, v, dt_fix, Fshift)
        updated_v == v + dv
    IN  IF updated_v > threshold
        THEN << <<"v", c_fix>>, <<"u", u + d_fix>>, <<"output", TRUE>> >>
        ELSE LET du == compute_du(u, v, a_fix, b_fix, dt_fix, Fshift)
             IN  << <<"v", updated_v>>, <<"u", u + du>> >>

\* Variant: the threshold is compared with v instead of v + dv.
neuron_func_late(v, u, I) ==
    LET dv == compute_dv(I, u, v, dt_fix, Fshift)
        updated_v == v + dv
    IN  IF v > threshold
        THEN << <<"v", c_fix>>, <<"u", u + d_fix>>, <<"output", TRUE>> >>
        ELSE LET du == compute_du(u, v, a_fix, b_fix, dt_fix, Fshift)
             IN  << <<"v", updated_v>>, <<"u", u + du>>, <<"output", FALSE>> >>

\* The body of neuron(): its assignments, from the current v, u and I.
neuron_func(v, u, I) ==
    LET dv == compute_dv(I, u, v, dt_fix, Fshift)
        updated_v == v + dv
    IN  IF updated_v > threshold
        THEN << <<"v", c_fix>>, <<"u", u + d_fix>>, <<"output", TRUE>> >>
        ELSE LET du == compute_du(u, v, a_fix, b_fix, dt_fix, Fshift)
             IN  << <<"v", updated_v>>, <<"u", u + du>>, <<"output", FALSE>> >>

\* always_seq: an active reset gives every register its initial value.
neuron ==
    /\ design = "iz"
    /\ RunProcess("neuron",
                  IF sig.reset = 0
                  THEN << <<"v", v_init>>, <<"u", u_init>>,
                          <<"output", output_init>> >>
                  ELSE neuron_func(sig.v, sig.u, sig.I))

\* clkgen of iz_test_bench.
clkgen ==
    /\ design = "iz"
    /\ TimeStep
    /\ sig.clk \/ edges < MaxEdges
    /\ nxt' = [nxt EXCEPT !.clk = ~sig.clk]
    /\ UNCHANGED <<design, tb, sig, runq, fault, edges, pre, edge, memo, call, ret>>

\* stimulus of iz_test_bench: drives I between clock edges.
iz_stimulus ==
    /\ design = "iz"
    /\ TimeStep
    /\ edges % StimPeriod = 0
    /\ \E i \in IInputs \ {sig.I} : nxt' = [nxt EXCEPT !.I = i]
    /\ UNCHANGED <<design, tb, sig, runq, fault, edges, pre, edge, memo, call, ret>>

----------------------------------------------------------------------------
\* The update phase of a delta cycle.

Clock == IF design = "exp" THEN "clock" ELSE "clk"
\* The processes waiting on signal edges; the bench adds its stimulus and
\* its monitor to the exponential's.
Procs ==
    IF design = "exp"
    THEN ExpProcs \cup (IF tb.on THEN {"stimulus", "monitor"} ELSE {})
    ELSE {"neuron"}

Changed(s) == nxt[s] # sig[s]
\* Variant: the event is any change of the clock, rising or falling.
anyedge(s) == sig[s] # nxt[s]

\* The event clock.posedge.
posedge(s) == ~sig[s] /\ nxt[s]
\* The event clock.negedge.
negedge(s) == sig[s] /\ ~nxt[s]
\* The active edge of ResetSignal(1, active=0, async=True).
ResetEdge == sig.reset = 1 /\ nxt.reset = 0

\* Variant: a synchronous reset, the reset edge triggers nothing.
Triggered_sync_reset(p) ==
    CASE p = "inst_x2"   -> Changed("x")
      [] p = "inst_x3"   -> Changed("x2") \/ Changed("x")
      [] p = "inst_x3_6" -> Changed("x3")
      [] p = "logic"     -> Changed("x") \/ Changed("x2") \/ Changed("x3_6")
      [] p = "reg_exp"   -> posedge("clock")
      [] p = "neuron"    -> posedge("clk")
      [] p = "stimulus"  -> negedge("clock")
      [] p = "monitor"   -> tb.mon = "posedge" /\ posedge("clock")

\* Variant: reg_exp is a transparent latch, it also follows y_comb.
Triggered_latch(p) ==
    CASE p = "inst_x2"   -> Changed("x")
      [] p = "inst_x3"   -> Changed("x2") \/ Changed("x")
      [] p = "inst_x3_6" -> Changed("x3")
      [] p = "logic"     -> Changed("x") \/ Changed("x2") \/ Changed("x3_6")
      [] p = "reg_exp"   -> posedge("clock") \/ ResetEdge \/ Changed("y_comb")
      [] p = "neuron"    -> posedge("clk") \/ ResetEdge
      [] p = "stimulus"  -> negedge("clock")
      [] p = "monitor"   -> tb.mon = "posedge" /\ posedge("clock")

\* Variant: logic misses x2 and x3_6 in its sensitivity list.
Triggered_incomplete(p) ==
    CASE p = "inst_x2"   -> Changed("x")
      [] p = "inst_x3"   -> Changed("x2") \/ Changed("x")
      [] p = "inst_x3_6" -> Changed("x3")
      [] p = "logic"     -> Changed("x")
      [] p = "reg_exp"   -> posedge("clock") \/ ResetEdge
      [] p = "neuron"    -> posedge("clk") \/ ResetEdge
      [] p = "stimulus"  -> negedge("clock")
      [] p = "monitor"   -> tb.mon = "posedge" /\ posedge("clock")

\* Variant: the bench's stimulus waits for the rising edge of the clock.
Triggered_stimulus_posedge(p) ==
    CASE p = "inst_x2"   -> Changed("x")
      [] p = "inst_x3"   -> Changed("x2") \/ Changed("x")
      [] p = "inst_x3_6" -> Changed("x3")
      [] p = "logic"     -> Changed("x") \/ Changed("x2") \/ Changed("x3_6")
      [] p = "reg_exp"   -> posedge("clock") \/ ResetEdge
      [] p = "neuron"    -> posedge("clk") \/ ResetEdge
      [] p = "stimulus"  -> posedge("clock")
      [] p = "monitor"   -> tb.mon = "posedge" /\ posedge("clock")

\* The sensitivity list of each process.
Triggered(p) ==
    CASE p = "inst_x2"   -> Changed("x")
      [] p = "inst_x3"   -> Changed("x2") \/ Changed("x")
      [] p = "inst_x3_6" -> Changed("x3")
      [] p = "logic"     -> Changed("x") \/ Changed("x2") \/ Changed("x3_6")
      [] p = "reg_exp"   -> posedge("clock") \/ ResetEdge
      [] p = "neuron"    -> posedge("clk") \/ ResetEdge
      [] p = "stimulus"  -> negedge("clock")
      [] p = "monitor"   -> tb.mon = "posedge" /\ posedge("clock")

\* What the rising clock edge found: the inputs and registers it will use.
Snapshot ==
    IF design = "exp" THEN [valid |-> TRUE, x |-> sig.x]
    ELSE [valid |-> TRUE, v |-> sig.v, u |-> sig.u, I |-> sig.I]
NoSnapshot ==
    IF design = "exp" THEN [valid |-> FALSE, x |-> 0]
    ELSE [valid |-> FALSE, v |-> 0, u |-> 0, I |-> 0]

\* History only: this update phase raises the clock.
RisingEdge == ~sig[Clock] /\ nxt[Clock]

Update ==
    /\ design \in {"exp", "iz"}
    /\ ~fault
    /\ runq = {}
    /\ nxt # sig
    /\ sig' = nxt
    /\ runq' = {p \in Procs : Triggered(p)}
    /\ edge' = RisingEdge
    /\ edges' = IF design = "exp" THEN edges
                ELSE IF nxt.reset = 0 THEN 0
                ELSE IF RisingEdge THEN edges + 1
                ELSE edges
    /\ pre' = IF nxt.reset = 0 THEN NoSnapshot
              ELSE IF RisingEdge THEN Snapshot
              ELSE pre
    /\ UNCHANGED <<design, tb, nxt, fault, memo, call, ret>>

----------------------------------------------------------------------------
\* The shipped test benches, with their timing: exp_test_bench(8) and
\* iz_test_bench(0.02, 0.2, -50.0, 2.0, 0.2, 11).  A process waiting on
\* delay(d) holds a timer; when no event is left at the current time, time
\* advances to the earliest timer and every process due then runs in the same
\* delta cycle.  Reset is never driven.

Min(S) == CHOOSE t \in S : \A r \in S : t <= r

\* yield delay(d) in process p.
SetTimer(p, d) ==
    [q \in DOMAIN tb.timers \cup {p} |->
        IF q = p THEN tb.now + d ELSE tb.timers[q]]

InitExpTb ==
    /\ design = "exp"
    /\ sig = [x |-> 0, x2 |-> 0, x3 |-> 0, x3_6 |-> 0, y_comb |-> 0, y |-> 0,
              clock |-> FALSE, reset |-> 1]
    /\ nxt = sig
    /\ runq = {"inst_x2", "inst_x3", "inst_x3_6", "logic"}
    /\ fault = FALSE
    /\ edges = 0
    /\ pre = [valid |-> FALSE, x |-> 0]
    /\ edge = FALSE
    /\ memo = [valid |-> FALSE, x |-> 0, y |-> 0]
    /\ call = <<>>
    /\ ret = [done |-> FALSE, val |-> 0]
    /\ tb = [on |-> TRUE, now |-> 0, stopped |-> FALSE,
             timers |-> [p \in {"clock_gen"} |-> 1],
             i |-> -(2 ^ N) + 1,
             mon |-> "posedge",
             sample |-> [valid |-> FALSE, x |-> 0, y |-> 0]]

\* stimulus() has run to its first delay: I.next = 0 changed nothing.
InitIzTb ==
    /\ design = "iz"
    /\ sig = [I |-> 0, v |-> v_init, u |-> u_init, output |-> output_init,
              clk |-> FALSE, reset |-> 1]
    /\ nxt = sig
    /\ runq = {}
    /\ fault = FALSE
    /\ edges = 0
    /\ pre = [valid |-> FALSE, v |-> 0, u |-> 0, I |-> 0]
    /\ edge = FALSE
    /\ memo = [valid |-> FALSE, x |-> 0, y |-> 0]
    /\ call = <<>>
    /\ ret = [done |-> FALSE, val |-> 0]
    /\ tb = [on |-> TRUE, now |-> 0, stopped |-> FALSE,
             timers |-> [p \in {"clkgen", "stimulus"} |->
                            IF p = "clkgen" THEN 50 ELSE 10000],
             phase |-> 1,
             spiked |-> FALSE]

\* History only: the settled state shows a spike committed by a rising edge
\* that found I = to_fixed(10.0); the neuron bench remembers having seen one.
SpikeSeen ==
    sig.output /\ pre.valid /\ pre.I = to_fixed(10, 1, Fshift)
Seen ==
    IF design = "iz" THEN [tb EXCEPT !.spiked = tb.spiked \/ SpikeSeen] ELSE tb

\* Simulated time advances to the next timed event.
advance ==
    /\ tb.on
    /\ ~tb.stopped
    /\ Quiescent
    /\ DOMAIN tb.timers # {}
    /\ LET t == Min({tb.timers[p] : p \in DOMAIN tb.timers})
           due == {p \in DOMAIN tb.timers : tb.timers[p] = t}
       IN  /\ runq' = due
           /\ tb' = [Seen EXCEPT !.now = t,
                                 !.timers = [p \in DOMAIN tb.timers \ due |->
                                                tb.timers[p]]]
    /\ UNCHANGED <<design, sig, nxt, fault, edges, pre, edge, memo, call, ret>>

\* Process p of the bench runs: its assignments and its new state.
RunBench(p, as, state) ==
    /\ tb.on
    /\ ~fault
    /\ p \in runq
    /\ runq' = runq \ {p}
    /\ nxt' = Assign(nxt, as).nxt
    /\ fault' = Assign(nxt, as).fault
    /\ tb' = state
    /\ UNCHANGED <<design, sig, edges, pre, edge, memo, call, ret>>

\* raise StopSimulation in process p: the run ends there, what is pending is
\* never committed.
StopSimulation(p) ==
    /\ tb.on
    /\ ~fault
    /\ p \in runq
    /\ runq' = {}
    /\ nxt' = sig
    /\ tb' = [tb EXCEPT !.stopped = TRUE]
    /\ UNCHANGED <<design, sig, fault, edges, pre, edge, memo, call, ret>>

\* clock_gen of exp_test_bench: @always(delay(1)).
exp_tb_clock_gen ==
    /\ design = "exp"
    /\ RunBench("clock_gen", << <<"clock", ~sig.clock>> >>,
                [tb EXCEPT !.timers = SetTimer("clock_gen", 1)])

\* stimulus of exp_test_bench: a new x after every falling edge, then the end.
exp_tb_stimulus ==
    /\ design = "exp"
    /\ IF tb.i < 2 ^ N
       THEN RunBench("stimulus", << <<"x", tb.i>> >>, [tb EXCEPT !.i = tb.i + 1])
       ELSE StopSimulation("stimulus")

\* monitor of exp_test_bench: after a rising edge it waits delay(1), then
\* reads x.val and y.val.
exp_tb_monitor ==
    /\ design = "exp"
    /\ IF tb.mon = "posedge"
       THEN RunBench("monitor", <<>>,
                     [tb EXCEPT !.mon = "delay",
                                !.timers = SetTimer("monitor", 1)])
       ELSE RunBench("monitor", <<>>,
                     [tb EXCEPT !.mon = "posedge",
                                !.sample = [valid |-> TRUE, x |-> sig.x,
                                            y |-> sig.y]])

\* clkgen of iz_test_bench: @always(delay(50)).
iz_tb_clkgen ==
    /\ design = "iz"
    /\ RunBench("clkgen", << <<"clk", ~sig.clk>> >>,
                [tb EXCEPT !.timers = SetTimer("clkgen", 50)])

\* Variant: the input current is driven as 10, without to_fixed.
iz_tb_stimulus_unscaled ==
    /\ design = "iz"
    /\ CASE tb.phase = 1 ->
              RunBench("stimulus", << <<"I", 10>> >>,
                       [tb EXCEPT !.phase = 2,
                                  !.timers = SetTimer("stimulus", 100000)])
         [] tb.phase = 2 ->
              RunBench("stimulus", << <<"I", 0>> >>,
                       [tb EXCEPT !.phase = 3,
                                  !.timers = SetTimer("stimulus", 10000)])
         [] tb.phase = 3 -> StopSimulation("stimulus")

\* stimulus of iz_test_bench: I = 0 for 10000, to_fixed(10.0) for 100000,
\* 0 for 10000, then the end.
iz_tb_stimulus ==
    /\ design = "iz"
    /\ CASE tb.phase = 1 ->
              RunBench("stimulus", << <<"I", to_fixed(10, 1, Fshift)>> >>,
                       [tb EXCEPT !.phase = 2,
                                  !.timers = SetTimer("stimulus", 100000)])
         [] tb.phase = 2 ->
              RunBench("stimulus", << <<"I", 0>> >>,
                       [tb EXCEPT !.phase = 3,
                                  !.timers = SetTimer("stimulus", 10000)])
         [] tb.phase = 3 -> StopSimulation("stimulus")

InitTb == InitExpTb \/ InitIzTb

NextTb ==
    \/ inst_x2
    \/ inst_x3
    \/ inst_x3_6
    \/ logic
    \/ reg_exp
    \/ neuron
    \/ Update
    \/ advance
    \/ exp_tb_clock_gen
    \/ exp_tb_stimulus
    \/ exp_tb_monitor
    \/ iz_tb_clkgen
    \/ iz_tb_stimulus

SpecTb == InitTb /\ [][NextTb]_vars

----------------------------------------------------------------------------
\* The pure functions, called directly on arguments drawn from their range.

\* Sample points of [-m, m): a grid with its neighbours, and both ends.
Samples(m) ==
    {(k * m) \div Grid + r : k \in (-Grid)..(Grid - 1), r \in {0, 1, 5}}
        \cup {m - 1}
Coarse(m) == {(k * m) \div Grid : k \in (-Grid)..(Grid - 1)} \cup {m - 1}

\* Real numbers num / den of the range (-R, R) of a format with F fraction
\* bits: quarter units in the last place around 0, 1, -1 and both ends of the
\* range, and the decimal constants the programs convert.
Reals(F, R) ==
    {<<a * (2 ^ (F + 2)) + k, 2 ^ (F + 2)>> :
        a \in {-(R - 1), -1, 0, 1, R - 1}, k \in (-Grid)..Grid}
        \cup {<<4, 100>>, <<2, 100>>, <<2, 10>>, <<1, 6>>, <<-1, 6>>, <<-4, 100>>}

\* Formats FixedDef(m, f) and fraction widths Fshift a caller may construct.
Formats == (0..1) \X (0..MaxF)

Calls ==
    [fn : {"fixed_mul"}, args : Samples(max_val) \X Samples(max_val)]
        \cup
    [fn : {"to_fixed"}, args : Reals(Fshift, max_val \div (2 ^ Fshift))]
        \cup
    [fn : {"FixedDef_to_fixed"},
     args : Reals(FixedDef_f, FixedDef_max_val \div (2 ^ FixedDef_f))]
        \cup
    [fn : {"ExpComb"}, args : {<<x>> : x \in (-(2 ^ N))..(2 ^ N)}]
        \cup
    [fn : {"FixedDef"}, args : Formats \X {<<1, 6>>, <<-5, 2>>}]
        \cup
    [fn : {"neuron_module"}, args : {<<f>> : f \in 0..MaxF}]
        \cup
    [fn : {"FixedDef_fixed_mul"},
     args : Samples(FixedDef_max_val) \X Samples(FixedDef_max_val)]
        \cup
    [fn : {"compute_dv"},
     args : IInputs \X Coarse(max_val) \X Samples(max_val)]
        \cup
    [fn : {"compute_du"}, args : Coarse(max_val) \X Samples(max_val)]

InitCalc ==
    /\ design = "calc"
    /\ call \in Calls
    /\ ret = [done |-> FALSE, val |-> 0]
    /\ sig = <<>>
    /\ nxt = <<>>
    /\ runq = {}
    /\ fault = FALSE
    /\ edges = 0
    /\ pre = [valid |-> FALSE]
    /\ edge = FALSE
    /\ memo = [valid |-> FALSE, x |-> 0, y |-> 0]
    /\ tb = NoBench

Return(fn, val) ==
    /\ call.fn = fn
    /\ ~ret.done
    /\ ret' = [done |-> TRUE, val |-> val]
    /\ UNCHANGED <<design, tb, sig, nxt, runq, fault, edges, pre, edge, memo, call>>

Call_fixed_mul ==
    /\ design = "calc"
    /\ Return("fixed_mul", fixed_mul(call.args[1], call.args[2], Fshift))

Call_FixedDef_fixed_mul ==
    /\ design = "calc"
    /\ Return("FixedDef_fixed_mul", FixedDef_fixed_mul(call.args[1], call.args[2]))

Call_compute_dv ==
    /\ design = "calc"
    /\ Return("compute_dv",
           compute_dv(call.args[1], call.args[2], call.args[3], dt_fix, Fshift))

Call_compute_du ==
    /\ design = "calc"
    /\ Return("compute_du",
           compute_du(call.args[1], call.args[2], a_fix, b_fix, dt_fix, Fshift))

\* to_float(to_fixed(r, Fshift), Fshift) for the real r = num / den.
Call_to_fixed ==
    /\ design = "calc"
    /\ LET k == to_fixed(call.args[1], call.args[2], Fshift)
       IN  Return("to_fixed", [fixed |-> k, float |-> to_float(k, Fshift)])

\* fixed_def.to_float(fixed_def.to_fixed(r)) for the real r = num / den.
Call_FixedDef_to_fixed ==
    /\ design = "calc"
    /\ LET k == FixedDef_to_fixed(call.args[1], call.args[2])
       IN  Return("FixedDef_to_fixed", [fixed |-> k, float |-> FixedDef_to_float(k)])

\* fixed_def = FixedDef(m, f); fixed_def.to_fixed(r): the constructor
\* checks nothing, the conversion runs on the object it left.
Call_FixedDef ==
    /\ design = "calc"
    /\ LET obj == FixedDef_init(call.args[1][1], call.args[1][2])
           r   == call.args[2]
       IN  Return("FixedDef",
                  [obj |-> obj, fixed |-> PyRound(r[1] * (2 ^ obj.f), r[2])])

\* neuron_module(..., Fshift): the conversions and the product that set up
\* its constants and registers.
Call_neuron_module ==
    /\ design = "calc"
    /\ LET F == call.args[1]
       IN  Return("neuron_module",
                  [a_fix |-> to_fixed(2, 100, F), b_fix |-> to_fixed(2, 10, F),
                   c_fix |-> to_fixed(-50, 1, F), d_fix |-> to_fixed(2, 1, F),
                   dt_fix |-> to_fixed(2, 10, F),
                   threshold |-> to_fixed(30, 1, F), max_val |-> 2 ^ (F + 7),
                   v |-> to_fixed(-50, 1, F),
                   u |-> fixed_mul(to_fixed(-50, 1, F), to_fixed(2, 10, F), F)])

\* ExpComb evaluated on an x of [-1.0, 1.0].
Call_ExpComb ==
    /\ design = "calc"
    /\ Return("ExpComb", ExpComb(call.args[1]))

NextCalc ==
    \/ Call_ExpComb
    \/ Call_to_fixed
    \/ Call_FixedDef_to_fixed
    \/ Call_FixedDef
    \/ Call_neuron_module
    \/ Call_fixed_mul
    \/ Call_FixedDef_fixed_mul
    \/ Call_compute_dv
    \/ Call_compute_du

SpecCalc == InitCalc /\ [][NextCalc]_vars

----------------------------------------------------------------------------
Init == InitExp \/ InitIz

Next ==
    \/ inst_x2
    \/ inst_x3
    \/ inst_x3_6
    \/ logic
    \/ reg_exp
    \/ clock_gen
    \/ exp_stimulus
    \/ observe
    \/ neuron
    \/ clkgen
    \/ iz_stimulus
    \/ reset_driver
    \/ Update

Spec == Init /\ [][Next]_vars

----------------------------------------------------------------------------
\* Reference arithmetic for the properties: floor division of the integers.

FloorMul(x, y, f) == (x * y) \div (2 ^ f)

\* x * y - z * 2^f without forming x * y, from x = xh * 2^f + xl.
MulRemainder(x, y, z, f) ==
    LET xh == x \div (2 ^ f)
        xl == x % (2 ^ f)
    IN  (xh * y - z) * (2 ^ f) + xl * y

\* floor(x * y / 2^f) for factors whose product exceeds 32 bits: the factor x
\* is split as xh * 2^f + xl, or y when y is the larger one.
WideFloorMul(x, y, f) ==
    IF Abs(x) >= Abs(y)
    THEN (x \div (2 ^ f)) * y + ((x % (2 ^ f)) * y) \div (2 ^ f)
    ELSE (y \div (2 ^ f)) * x + ((y % (2 ^ f)) * x) \div (2 ^ f)

\* The registers <<v, u, output>> the spike rule selects from (v, u, I).
SpikeRuleNext(v, u, I) ==
    LET dv == compute_dv(I, u, v, dt_fix, Fshift)
    IN  IF v + dv > to_fixed(30, 1, Fshift)
        THEN <<c_fix, u + d_fix, TRUE>>
        ELSE <<v + dv,
               u + compute_du(u, v, a_fix, b_fix, dt_fix, Fshift),
               FALSE>>

Regs == <<sig.v, sig.u, sig.output>>
InFormat(val) == val >= -max_val /\ val < max_val

----------------------------------------------------------------------------
ResetForces ==
    (design = "iz" /\ sig.reset = 0 /\ runq = {}) =>
        /\ nxt.v = c_fix
        /\ nxt.u = FloorMul(b_fix, c_fix, Fshift)
        /\ nxt.output = FALSE
        /\ (nxt = sig => Regs = <<c_fix, FloorMul(b_fix, c_fix, Fshift), FALSE>>)

\* Reset was asserted while the clock was low and no clock edge was involved:
\* the registers had left their reset values and are about to take them again.
ResetForcesWitness ==
    /\ design = "iz"
    /\ sig.reset = 0
    /\ runq = {}
    /\ ~sig.clk
    /\ ~edge
    /\ sig.v # c_fix
    /\ sig.u # FloorMul(b_fix, c_fix, Fshift)
    /\ nxt.v = c_fix

\* C3.  Every step that changes v, u or output with reset not asserted changes
\* all three at once, to the values computed from the same pre-step (v, u, I):
\* du comes from the pre-edge v, and no state shows a part of the update.
SimultaneousUpdate ==
    [][(design = "iz" /\ sig.reset = 1 /\ Regs' # Regs)
          => Regs' = SpikeRuleNext(sig.v, sig.u, sig.I)]_vars

\* A non-spiking edge was committed for which du computed from the updated v
\* would have differed from du computed from the pre-edge v.
SimultaneousUpdateWitness ==
    /\ design = "iz"
    /\ Quiescent
    /\ pre.valid
    /\ ~sig.output
    /\ sig.v # pre.v
    /\ sig.u = pre.u + compute_du(pre.u, pre.v, a_fix, b_fix, dt_fix, Fshift)
    /\ compute_du(pre.u, pre.v, a_fix, b_fix, dt_fix, Fshift)
         # compute_du(pre.u, sig.v, a_fix, b_fix, dt_fix, Fshift)

----------------------------------------------------------------------------
\* The 3-term exponential of x, with floor division for every rescaling.
ExpRef(x) ==
    LET x2   == FloorMul(x, x, N)
        x3   == FloorMul(x2, x, N)
        x3_6 == FloorMul(x3, sixth, N)
    IN  [x2 |-> x2, x3 |-> x3, x3_6 |-> x3_6,
         y  |-> (2 ^ N) + x + (x2 \div 2) + x3_6]

\* C4.  After a rising clock edge with reset not asserted, y is the settled
\* ExpComb output for the x held immediately before that edge, until the next
\* rising edge or reset: the ExpComb sequence delayed by one clock.
OneClockDelay ==
    (design = "exp" /\ Quiescent /\ pre.valid) => sig.y = ExpRef(pre.x).y

\* y holds the output for the x of the last edge while x has moved on and the
\* combinational output already shows another value.
OneClockDelayWitness ==
    /\ design = "exp"
    /\ Quiescent
    /\ pre.valid
    /\ sig.x # pre.x
    /\ sig.y # sig.y_comb
    /\ sig.y = ExpRef(pre.x).y
    /\ pre.x < 0

\* The committed registers of the design in hand.
Committed == IF design = "exp" THEN <<sig.y>> ELSE Regs

\* C5.  With reset not asserted the committed registers (y; v, u and output)
\* change only in the delta cycle of a rising clock edge: input changes,
\* combinational re-evaluations and falling edges leave them unchanged.
StableBetweenEdges ==
    [][(design \in {"exp", "iz"} /\ sig.reset = 1 /\ Committed' # Committed)
          => edge]_vars

\* Since the last rising edge the clock fell and the input changed, the
\* combinational output followed it, and the register kept its value.
StableBetweenEdgesWitness ==
    /\ design = "exp"
    /\ Quiescent
    /\ pre.valid
    /\ ~sig.clock
    /\ sig.x # pre.x
    /\ sig.y_comb = ExpRef(sig.x).y
    /\ sig.y # sig.y_comb

MultiplyTruncation ==
    (design = "calc" /\ ret.done
       /\ call.fn \in {"fixed_mul", "FixedDef_fixed_mul"}) =>
        LET f == IF call.fn = "fixed_mul" THEN Fshift ELSE N
            r == MulRemainder(call.args[1], call.args[2], ret.val, f)
        IN  r >= 0 /\ r < 2 ^ f

\* A negative product that is no multiple of 2^f, with a boundary factor.
MultiplyTruncationWitness ==
    /\ design = "calc"
    /\ ret.done
    /\ call.fn = "fixed_mul"
    /\ call.args[1] = max_val - 1
    /\ call.args[2] < 0
    /\ MulRemainder(call.args[1], call.args[2], ret.val, Fshift) > 0

Deterministic ==
    (design = "exp" /\ Quiescent /\ memo.valid /\ sig.x = memo.x)
        => sig.y_comb = memo.y

\* The network is back on the observed x after settling on another input,
\* which the register still shows.
DeterministicWitness ==
    /\ design = "exp"
    /\ Quiescent
    /\ memo.valid
    /\ sig.x = memo.x
    /\ sig.x # 0
    /\ pre.valid
    /\ pre.x # memo.x
    /\ sig.y # memo.y

\* C10.  compute_dv = multiply(dt, multiply(c1, multiply(v, v))
\* + multiply(c2, v) + c3 - u + I) and compute_du = multiply(multiply(dt, a),
\* multiply(b, v) - u), every multiply being a floor division by 2^Fshift and
\* every sum exact.
Derivatives ==
    /\ (design = "calc" /\ ret.done /\ call.fn = "compute_dv") =>
          LET I == call.args[1]
              u == call.args[2]
              v == call.args[3]
              c1 == (4 * (2 ^ Fshift)) \div 100
              c2 == 5 * (2 ^ Fshift)
              c3 == 140 * (2 ^ Fshift)
              s == WideFloorMul(c1, WideFloorMul(v, v, Fshift), Fshift)
                     + WideFloorMul(c2, v, Fshift) + c3 - u + I
          IN  ret.val = WideFloorMul(dt_fix, s, Fshift)
    /\ (design = "calc" /\ ret.done /\ call.fn = "compute_du") =>
          LET u == call.args[1]
              v == call.args[2]
          IN  ret.val = WideFloorMul(WideFloorMul(dt_fix, a_fix, Fshift),
                                     WideFloorMul(b_fix, v, Fshift) - u,
                                     Fshift)

\* dv for a negative v, a positive u and a positive I, itself negative.
DerivativesWitness ==
    /\ design = "calc"
    /\ ret.done
    /\ call.fn = "compute_dv"
    /\ call.args[1] > 0
    /\ call.args[2] > 0
    /\ call.args[3] < 0
    /\ ret.val < 0

----------------------------------------------------------------------------
\* |float - num / den| <= 2^-(f+1), on integers.
WithinHalfUlp(num, den, float, f) ==
    Abs(float.num * den - num * float.den) * (2 ^ (f + 1)) <= den * float.den

\* C11.  Round trip: for every real r of the format's range,
\* toFloat(toFixed(r)) is within 2^-(f+1) of r, for FixedDef.to_fixed and for
\* the neuron module's to_fixed.
RoundTrip ==
    /\ (design = "calc" /\ ret.done /\ call.fn = "FixedDef_to_fixed") =>
          WithinHalfUlp(call.args[1], call.args[2], ret.val.float, FixedDef_f)
    /\ (design = "calc" /\ ret.done /\ call.fn = "to_fixed") =>
          WithinHalfUlp(call.args[1], call.args[2], ret.val.float, Fshift)

\* |x * y| - |z| * 2^f, from the magnitudes of the factors.
MagnitudeLoss(x, y, z, f) == MulRemainder(Abs(x), Abs(y), Abs(z), f)

\* C12 (as stated).  |multiply(x, y)| * 2^f <= |x * y| for all in-range x and
\* y, negative products included.
DownwardInMagnitude ==
    (design = "calc" /\ ret.done
       /\ call.fn \in {"fixed_mul", "FixedDef_fixed_mul"}) =>
        MagnitudeLoss(call.args[1], call.args[2], ret.val,
                      IF call.fn = "fixed_mul" THEN Fshift ELSE N) >= 0

\* C12 (amended).  The truncation biases the result downward in value: for a
\* product x * y >= 0 the rescaled result is never larger in magnitude,
\* 0 <= |x * y| - |z| * 2^f < 2^f; for a product x * y < 0 it is never
\* smaller in magnitude, 0 <= |z| * 2^f - |x * y| < 2^f, and larger whenever
\* x * y is no multiple of 2^f.
DownwardInValue ==
    (design = "calc" /\ ret.done
       /\ call.fn \in {"fixed_mul", "FixedDef_fixed_mul"}) =>
        LET x == call.args[1]
            y == call.args[2]
            f == IF call.fn = "fixed_mul" THEN Fshift ELSE N
            loss == MagnitudeLoss(x, y, ret.val, f)
            negative == (x < 0 /\ y > 0) \/ (x > 0 /\ y < 0)
            xl == Abs(x) % (2 ^ f)
            yl == Abs(y) % (2 ^ f)
            multiple == (xl * yl) % (2 ^ f) = 0
        IN  IF negative
            THEN /\ loss <= 0
                 /\ -loss < 2 ^ f
                 /\ (loss = 0) <=> multiple
                 /\ ret.val < 0
            ELSE /\ loss >= 0
                 /\ loss < 2 ^ f
                 /\ ret.val >= 0

\* A negative product of the exponential's multiplier whose rescaled result
\* is larger in magnitude than the product.
DownwardInValueWitness ==
    /\ design = "calc"
    /\ ret.done
    /\ call.fn = "FixedDef_fixed_mul"
    /\ call.args[1] < 0
    /\ call.args[2] > 0
    /\ MagnitudeLoss(call.args[1], call.args[2], ret.val, N) < 0

\* C15.  A format with f = 0 is rejected at construction: no FixedDef with
\* f = 0 and no neuron module with Fshift = 0 gets to perform arithmetic.
RejectsZeroFraction ==
    /\ (design = "calc" /\ call.fn = "FixedDef" /\ call.args[1][2] = 0)
          => ~ret.done
    /\ (design = "calc" /\ call.fn = "neuron_module" /\ call.args[1] = 0)
          => ~ret.done

----------------------------------------------------------------------------
\* C13.  ExpComb computes the second-order expansion
\* y = (1 << f) + x + (x2 >> 1) with no higher-order term; with the format
\* (m = 1, f = 8) and x = toFixed(0.5) = 128 the output is 416.
SecondOrderExpansion ==
    (design = "exp" /\ Quiescent) =>
        /\ sig.y_comb = (2 ^ N) + sig.x + (FloorMul(sig.x, sig.x, N) \div 2)
        /\ (sig.x = 128 => sig.y_comb = 256 + 128 + (64 \div 2))

\* A pending value outside the range [min, max) of its intbv signal.
OutOfRange(s, val) ==
    IF design = "exp"
    THEN val < -(2 ^ (FixedDef_m + N + 1)) \/ val >= 2 ^ (FixedDef_m + N + 1)
    ELSE val < -(2 ^ (Fshift + 7)) \/ val >= 2 ^ (Fshift + 7)

Bounded == {"x", "x2", "x3", "x3_6", "y_comb", "y", "I", "v", "u"}

Spikes(v, u, I) == v + compute_dv(I, u, v, dt_fix, Fshift) > to_fixed(30, 1, Fshift)

\* C17.  In every settled state output is true exactly when the most recent
\* rising clock edge with reset not asserted took the spike branch; it is false
\* after construction and reset and after every non-spiking edge; whenever it
\* is true v = c_fix, and the following edge cannot spike, so the pulse lasts
\* exactly one clock cycle.
OneCyclePulse ==
    (design = "iz" /\ runq = {} /\ (fault \/ nxt = sig)) =>
        /\ sig.output => sig.v = c_fix
        /\ (pre.valid /\ ~fault) =>
              (sig.output <=> Spikes(pre.v, pre.u, pre.I))
        /\ ~pre.valid => ~sig.output
        /\ sig.output => \A I \in IInputs : ~Spikes(sig.v, sig.u, I)
        /\ fault => ~sig.output

\* The edge after a spike: it started from v = c_fix and the incremented u,
\* did not spike, and output is false again.
OneCyclePulseWitness ==
    /\ design = "iz"
    /\ Quiescent
    /\ pre.valid
    /\ edges >= 2
    /\ pre.v = c_fix
    /\ pre.u # u_init
    /\ ~sig.output
    /\ sig.v # c_fix

\* C18.  The membrane potential never exceeds the threshold: in every
\* reachable state the committed v, and the pending one, is at most
\* to_fixed(30.0); a value v + dv above the threshold is never committed.
BelowThreshold ==
    design = "iz" =>
        /\ sig.v <= to_fixed(30, 1, Fshift)
        /\ nxt.v <= to_fixed(30, 1, Fshift)

\* An edge found v + dv above the threshold, starting from a positive v, and
\* committed c_fix instead.
BelowThresholdWitness ==
    /\ design = "iz"
    /\ Quiescent
    /\ pre.valid
    /\ pre.v > 0
    /\ pre.v + compute_dv(pre.I, pre.u, pre.v, dt_fix, Fshift)
         > to_fixed(30, 1, Fshift)
    /\ sig.v = c_fix

----------------------------------------------------------------------------
\* The relative error (y / 2^N - g) / g of the output y for the input k
\* against g = math.exp(k / 2^N), for every g of the enclosure: its magnitude
\* is below p / q (ErrBelow), or it is p / q or more (ErrAtLeast).
ErrBelow(y, k, p, q) ==
    LET L == math_exp_lo(Abs(k))
        U == math_exp_hi(Abs(k))
    IN  IF k >= 0
        THEN /\ q * y * ExpScale < (q + p) * (2 ^ N) * L
             /\ q * y * ExpScale > (q - p) * (2 ^ N) * U
        ELSE /\ q * y * U < (q + p) * (2 ^ N) * ExpScale
             /\ q * y * L > (q - p) * (2 ^ N) * ExpScale

ErrAtLeast(y, k, p, q) ==
    LET L == math_exp_lo(Abs(k))
        U == math_exp_hi(Abs(k))
    IN  IF k >= 0
        THEN \/ q * y * ExpScale >= (q + p) * (2 ^ N) * U
             \/ q * y * ExpScale <= (q - p) * (2 ^ N) * L
        ELSE \/ q * y * L >= (q + p) * (2 ^ N) * ExpScale
             \/ q * y * U <= (q - p) * (2 ^ N) * ExpScale

\* C16 (as stated).  For every x with |x| <= 1.0 encoded at f = 8 the relative
\* error of the output against e^x is below 5%.
AccuracyFivePercent ==
    (design = "calc" /\ ret.done /\ call.fn = "ExpComb") =>
        ~ErrAtLeast(ret.val, call.args[1], 5, 100)

\* C16 (amended).  For every x with |x| <= 1.0 encoded at f = 8 the relative
\* error is below 11%; it is below 5% for every x >= -210 / 256, and 5% or
\* more at x = -1.0.
AccuracyBound ==
    (design = "calc" /\ ret.done /\ call.fn = "ExpComb") =>
        /\ ErrBelow(ret.val, call.args[1], 11, 100)
        /\ call.args[1] >= -210 => ErrBelow(ret.val, call.args[1], 5, 100)
        /\ call.args[1] = -(2 ^ N) => ErrAtLeast(ret.val, call.args[1], 5, 100)

\* The output for x = -1.0: 85, a third of 2^N, where e^-1 * 2^N is 94.2.
AccuracyBoundWitness ==
    /\ design = "calc"
    /\ ret.done
    /\ call.fn = "ExpComb"
    /\ call.args[1] = -(2 ^ N)
    /\ ret.val = 85

----------------------------------------------------------------------------
\* C19.  In exp_test_bench every sample of the monitor is a consistent pair:
\* the y it reads is the settled ExpComb output for the x it reads, although
\* the stimulus assigns the next x at the same simulated time; and whenever the
\* register is about to sample y_comb, the network has settled on the current
\* x.
SamplingAligned ==
    (design = "exp" /\ tb.on) =>
        /\ tb.sample.valid => tb.sample.y = ExpRef(tb.sample.x).y
        /\ "reg_exp" \in runq =>
              /\ sig.y_comb = ExpRef(sig.x).y
              /\ nxt.y_comb = sig.y_comb
              /\ nxt.x = sig.x
              /\ runq \cap {"inst_x2", "inst_x3", "inst_x3_6", "logic"} = {}

\* The monitor has sampled and, at the same simulated time, the stimulus has
\* moved x on: the register still shows the output for the sampled x, which is
\* not the output for the new x.
SamplingAlignedWitness ==
    /\ design = "exp"
    /\ tb.on
    /\ Quiescent
    /\ tb.sample.valid
    /\ tb.mon = "posedge"
    /\ ~sig.clock
    /\ tb.now % 2 = 0
    /\ sig.x # tb.sample.x
    /\ sig.y = tb.sample.y
    /\ sig.y # ExpRef(sig.x).y

\* C20.  Under the shipped bench the neuron spikes while I is held at
\* to_fixed(10.0): when the stimulus ends that phase, a rising edge of the
\* phase has committed output = true and v = c_fix; no clock edge of the run
\* ends in a range error, and the run ends after all of its 1200 rising edges.
ShippedBenchSpikes ==
    (design = "iz" /\ tb.on) =>
        /\ ~fault
        /\ tb.phase = 1 => ~tb.spiked
        /\ tb.phase = 3 => tb.spiked
        /\ tb.stopped => (tb.phase = 3 /\ tb.now = 120000 /\ edges = 1200)
        /\ SpikeSeen => sig.v = c_fix

\* The run is over: it went through the three phases of the stimulus and
\* saw a spike in the second.
ShippedBenchSpikesWitness ==
    /\ design = "iz"
    /\ tb.on
    /\ tb.stopped
    /\ tb.spiked
    /\ ~fault

====
